---------------------------- MODULE Spec2Model ----------------------------
(***************************************************************************)
(* Model of scripts/process_prices.py: the chunked group-by aggregation of *)
(* the Land Registry price-paid CSV into one JSON artifact per year.       *)
(*                                                                         *)
(* Strings that the code takes apart (postcodes) are sequences of          *)
(* one-character strings.  Python dicts are sequences of <<key, value>>    *)
(* pairs in insertion order, which is the order json.dump serializes.      *)
(***************************************************************************)
EXTENDS Integers, Sequences, FiniteSets, TLC

(***************************************************************************)
(* Bounds of the model.                                                    *)
(***************************************************************************)
\* rows per chunk read by pd.read_csv(chunksize=chunk_size); 500000 in the
\* code, scaled down
ChunkSize == 2
\* rows the input file may hold
MaxRows == 5

(***************************************************************************)
(* Program constants.                                                      *)
(***************************************************************************)
VALID_PROPERTY_TYPES == {"D", "S", "T", "F"}

ALL_PROPERTY_TYPE == "A"

\* the value None of Python; no string of characters equals it
None == <<"None">>

(***************************************************************************)
(* Characters and strings.                                                 *)
(***************************************************************************)
\* the characters of the modelled input, in code-point order
Alphabet == <<" ", "1", "7", "A", "D", "E", "F", "M", "O", "S", "T", "a", "e", "m">>

CharRank(c) == CHOOSE i \in DOMAIN Alphabet : Alphabet[i] = c

\* str.upper on one character
UpperChar(c) ==
    CASE c = "a" -> "A"
      [] c = "e" -> "E"
      [] c = "m" -> "M"
      [] OTHER -> c

\* str.upper
Upper(s) == [i \in DOMAIN s |-> UpperChar(s[i])]

RECURSIVE LStrip(_)
LStrip(s) == IF s # <<>> /\ Head(s) = " " THEN LStrip(Tail(s)) ELSE s

RECURSIVE RStrip(_)
RStrip(s) ==
    IF s # <<>> /\ s[Len(s)] = " " THEN RStrip(SubSeq(s, 1, Len(s) - 1)) ELSE s

\* str.strip
Strip(s) == RStrip(LStrip(s))

\* str.split(): the maximal runs of non-whitespace characters.  cur is the
\* token being read, acc the tokens read so far.
RECURSIVE SplitFrom(_, _, _)
SplitFrom(s, cur, acc) ==
    IF s = <<>>
    THEN IF cur = <<>> THEN acc ELSE Append(acc, cur)
    ELSE IF Head(s) = " "
         THEN SplitFrom(Tail(s), <<>>, IF cur = <<>> THEN acc ELSE Append(acc, cur))
         ELSE SplitFrom(Tail(s), Append(cur, Head(s)), acc)

Split(s) == SplitFrom(s, <<>>, <<>>)

\* s < t in the order Python compares strings
RECURSIVE StrLess(_, _)
StrLess(s, t) ==
    IF t = <<>> THEN FALSE
    ELSE IF s = <<>> THEN TRUE
    ELSE IF Head(s) = Head(t) THEN StrLess(Tail(s), Tail(t))
    ELSE CharRank(Head(s)) < CharRank(Head(t))

(***************************************************************************)
(* extract_postcode_district and normalize_district_id.  A postcode cell   *)
(* of the DataFrame is a string, or NaN when the CSV field is empty; NaN   *)
(* is the empty sequence here, since read_csv yields no empty string.      *)
(***************************************************************************)
\* a variant that accepts every postcode of at least two tokens
extract_postcode_district_atLeastTwo(postcode) ==
    IF postcode = <<>>
    THEN None
    ELSE LET parts == Split(Upper(Strip(postcode)))
         IN  IF Len(parts) < 2 THEN None ELSE parts[1]

extract_postcode_district(postcode) ==
    IF postcode = <<>>
    THEN None
    ELSE LET parts == Split(Upper(Strip(postcode)))
         IN  IF Len(parts) # 2 THEN None ELSE parts[1]

normalize_district_id(district) ==
    IF district = None \/ district = <<>> THEN None ELSE Upper(district)

(***************************************************************************)
(* Numbers.                                                                *)
(***************************************************************************)
\* int(round(n / d)) for d > 0: Python rounds halves to the even integer
RoundDiv(n, d) ==
    LET q == n \div d
        r == n % d
    IN  IF 2 * r < d THEN q
        ELSE IF 2 * r > d THEN q + 1
        ELSE IF q % 2 = 0 THEN q ELSE q + 1

RECURSIVE SeqSum(_)
SeqSum(s) == IF s = <<>> THEN 0 ELSE Head(s) + SeqSum(Tail(s))

RECURSIVE InsertSorted(_, _)
InsertSorted(s, x) ==
    IF s = <<>> THEN <<x>>
    ELSE IF x <= Head(s) THEN <<x>> \o s
    ELSE <<Head(s)>> \o InsertSorted(Tail(s), x)

RECURSIVE SortPrices(_)
SortPrices(s) == IF s = <<>> THEN <<>> ELSE InsertSorted(SortPrices(Tail(s)), Head(s))

\* int(round(prices.mean()))
MeanOf(prices) == RoundDiv(SeqSum(prices), Len(prices))

\* int(round(pd.Series(prices).median())): the middle value, or the mean of
\* the two middle values
MedianOf(prices) ==
    LET s == SortPrices(prices)
        n == Len(s)
    IN  IF n % 2 = 1 THEN s[(n + 1) \div 2]
        ELSE RoundDiv(s[n \div 2] + s[n \div 2 + 1], 2)

(***************************************************************************)
(* Python dicts, in insertion order.                                       *)
(***************************************************************************)
DictKeys(d) == {d[i][1] : i \in DOMAIN d}

DictHas(d, k) == \E i \in DOMAIN d : d[i][1] = k

DictGet(d, k) == d[CHOOSE i \in DOMAIN d : d[i][1] = k][2]

\* d[k] = v: a new key goes last, an existing key keeps its place
DictSet(d, k, v) ==
    IF DictHas(d, k)
    THEN [i \in DOMAIN d |-> IF d[i][1] = k THEN <<k, v>> ELSE d[i]]
    ELSE Append(d, <<k, v>>)

(***************************************************************************)
(* The input: rows of the CSV file, as the text of the four columns the    *)
(* code reads (usecols).                                                   *)
(***************************************************************************)
PostcodeM1 == <<"M", "1", " ", "1", "A", "A">>

PostcodeE1 == <<"e", "1", " ", "7", "a", "a">>

PostcodeOneToken == <<"M", "1", "1", "A", "A">>

\* rows the code aggregates: two prices and two property types of one
\* district and year, one row of another district, one of another year
GoodRows ==
    [price : {"1", "2"}, date : {"2020-03-01"}, postcode : {PostcodeM1},
     property_type : {"D", "F"}]
    \cup {[price |-> "1", date |-> "2020-03-01", postcode |-> PostcodeE1,
           property_type |-> "D"],
          [price |-> "1", date |-> "2021-07-15", postcode |-> PostcodeM1,
           property_type |-> "F"]}

\* rows with one defect each
BadRows ==
    {[price |-> "abc", date |-> "2020-03-01", postcode |-> PostcodeM1,
      property_type |-> "D"],
     [price |-> "-1", date |-> "2020-03-01", postcode |-> PostcodeM1,
      property_type |-> "D"],
     [price |-> "1", date |-> "n/a", postcode |-> PostcodeM1,
      property_type |-> "D"],
     [price |-> "1", date |-> "", postcode |-> PostcodeM1,
      property_type |-> "D"],
     [price |-> "1", date |-> "2020-03-01", postcode |-> PostcodeOneToken,
      property_type |-> "D"],
     [price |-> "1", date |-> "2020-03-01", postcode |-> PostcodeM1,
      property_type |-> "O"]}

Rows == GoodRows \cup BadRows

\* the chunks read_csv can yield when at most n rows are left in the file
ChunksUpTo(n) == UNION {[1..m -> Rows] : m \in 1..n}

Min(a, b) == IF a <= b THEN a ELSE b

(***************************************************************************)
(* pd.read_csv: dtype={'price': 'int64'}, parse_dates=['date'].            *)
(***************************************************************************)
\* the text parses as an int64
IsInt(text) == text \in {"1", "2", "-1"}

IntOf(text) ==
    CASE text = "1" -> 1
      [] text = "2" -> 2
      [] text = "-1" -> -1

\* the year of a missing date (NaT): groupby drops the row
NaT == 0

\* the text is a date, or is empty (NaT)
IsDate(text) == text \in {"2020-03-01", "2021-07-15", ""}

\* chunk['date'].dt.year
YearOf(text) ==
    CASE text = "2020-03-01" -> 2020
      [] text = "2021-07-15" -> 2021
      [] text = "" -> NaT

\* read_csv raises ValueError when a price of the chunk is no int64
PricesParse(chunk) == \A i \in DOMAIN chunk : IsInt(chunk[i].price)

\* the date column of the chunk is datetime64 only if every date parsed; it
\* stays an object column otherwise, and .dt raises AttributeError
DatesParse(chunk) == \A i \in DOMAIN chunk : IsDate(chunk[i].date)

(***************************************************************************)
(* One chunk of the loop of process_data.                                  *)
(***************************************************************************)
\* a variant without the filter on the property type
HasValidType_any(row) == TRUE

HasValidType(row) == row.property_type \in VALID_PROPERTY_TYPES

DistrictId(row) == normalize_district_id(extract_postcode_district(row.postcode))

HasDistrict(row) == DistrictId(row) # None

\* chunk[chunk['property_type'].isin(VALID_PROPERTY_TYPES)], then
\* dropna(subset=['district_id'])
ValidRowsOf(chunk) == SelectSeq(SelectSeq(chunk, HasValidType), HasDistrict)

GroupKey(row) == <<DistrictId(row), YearOf(row.date), row.property_type>>

\* the groups of chunk.groupby([...]): rows with a NaN key are dropped
GroupKeysOf(rows) ==
    {GroupKey(rows[i]) : i \in {j \in DOMAIN rows : YearOf(rows[j].date) # NaT}}

\* group['price'].values
RECURSIVE PricesOf(_, _)
PricesOf(rows, key) ==
    IF rows = <<>> THEN <<>>
    ELSE IF GroupKey(Head(rows)) = key
         THEN <<IntOf(Head(rows).price)>> \o PricesOf(Tail(rows), key)
         ELSE PricesOf(Tail(rows), key)

\* groupby sorts the keys: by district, then year, then property type
KeyLess(a, b) ==
    IF a[1] # b[1] THEN StrLess(a[1], b[1])
    ELSE IF a[2] # b[2] THEN a[2] < b[2]
    ELSE CharRank(a[3]) < CharRank(b[3])

RECURSIVE SortedKeys(_)
SortedKeys(keys) ==
    IF keys = {} THEN <<>>
    ELSE LET m == CHOOSE k \in keys : \A o \in keys \ {k} : KeyLess(k, o)
         IN  <<m>> \o SortedKeys(keys \ {m})

\* the merge of a chunk's statistics into the stored entry of the group
MergeStat(existing, avg, median, count) ==
    LET total_count == existing.count + count
    IN  [avg |-> RoundDiv(existing.avg * existing.count + avg * count, total_count),
         median |-> median,
         count |-> total_count]

\* the body of the groupby loop for one group
UpdateGroup(agg, key, prices) ==
    LET district_id == key[1]
        year == key[2]
        prop_type == key[3]
        agg1 == IF DictHas(agg, year) THEN agg ELSE DictSet(agg, year, <<>>)
        year_data == DictGet(agg1, year)
        year_data1 == IF DictHas(year_data, district_id) THEN year_data
                      ELSE DictSet(year_data, district_id, <<>>)
        district_data == DictGet(year_data1, district_id)
        avg == MeanOf(prices)
        median == MedianOf(prices)
        count == Len(prices)
        stat == IF DictHas(district_data, prop_type)
                THEN MergeStat(DictGet(district_data, prop_type), avg, median, count)
                ELSE [avg |-> avg, median |-> median, count |-> count]
    IN  DictSet(agg1, year,
                DictSet(year_data1, district_id,
                        DictSet(district_data, prop_type, stat)))

\* the groupby loop over the sorted keys
RECURSIVE UpdateGroups(_, _, _)
UpdateGroups(agg, keys, rows) ==
    IF keys = <<>> THEN agg
    ELSE UpdateGroups(UpdateGroup(agg, Head(keys), PricesOf(rows, Head(keys))),
                      Tail(keys), rows)

AggregateChunk(agg, chunk) ==
    LET rows == ValidRowsOf(chunk)
    IN  UpdateGroups(agg, SortedKeys(GroupKeysOf(rows)), rows)

(***************************************************************************)
(* The "All" aggregate of one district and year.                           *)
(***************************************************************************)
\* the orders in which a run may iterate over the set VALID_PROPERTY_TYPES
TypeOrders ==
    {o \in [1..Cardinality(VALID_PROPERTY_TYPES) -> VALID_PROPERTY_TYPES] :
        \A i, j \in DOMAIN o : i # j => o[i] # o[j]}

\* a variant of the loop that keeps the latest median only, as the merge of
\* the chunk loop does
RECURSIVE CollectStats_lastMedian(_, _, _)
CollectStats_lastMedian(district_data, order, acc) ==
    IF order = <<>> THEN acc
    ELSE IF DictHas(district_data, Head(order))
         THEN LET stats == DictGet(district_data, Head(order))
              IN  CollectStats_lastMedian(district_data, Tail(order),
                      [total_count |-> acc.total_count + stats.count,
                       weighted_avg_sum |-> acc.weighted_avg_sum
                                            + stats.avg * stats.count,
                       all_medians |-> <<stats.median>>])
         ELSE CollectStats_lastMedian(district_data, Tail(order), acc)

\* a variant of the loop that adds the avgs up without their counts
RECURSIVE CollectStats_unweighted(_, _, _)
CollectStats_unweighted(district_data, order, acc) ==
    IF order = <<>> THEN acc
    ELSE IF DictHas(district_data, Head(order))
         THEN LET stats == DictGet(district_data, Head(order))
              IN  CollectStats_unweighted(district_data, Tail(order),
                      [total_count |-> acc.total_count + stats.count,
                       weighted_avg_sum |-> acc.weighted_avg_sum + stats.avg,
                       all_medians |-> Append(acc.all_medians, stats.median)])
         ELSE CollectStats_unweighted(district_data, Tail(order), acc)

\* the loop over VALID_PROPERTY_TYPES: acc holds total_count,
\* weighted_avg_sum and all_medians
RECURSIVE CollectStats(_, _, _)
CollectStats(district_data, order, acc) ==
    IF order = <<>> THEN acc
    ELSE IF DictHas(district_data, Head(order))
         THEN LET stats == DictGet(district_data, Head(order))
              IN  CollectStats(district_data, Tail(order),
                      [total_count |-> acc.total_count + stats.count,
                       weighted_avg_sum |-> acc.weighted_avg_sum
                                            + stats.avg * stats.count,
                       all_medians |-> Append(acc.all_medians, stats.median)])
         ELSE CollectStats(district_data, Tail(order), acc)

\* a variant that counts the property types instead of the records
CombinedStat_countTypes(acc) ==
    [avg |-> RoundDiv(acc.weighted_avg_sum, acc.total_count),
     median |-> RoundDiv(SeqSum(acc.all_medians), Len(acc.all_medians)),
     count |-> Len(acc.all_medians)]

CombinedStat(acc) ==
    [avg |-> RoundDiv(acc.weighted_avg_sum, acc.total_count),
     median |-> RoundDiv(SeqSum(acc.all_medians), Len(acc.all_medians)),
     count |-> acc.total_count]

CombineDistrict(district_data, order) ==
    LET acc == CollectStats(district_data, order,
                   [total_count |-> 0, weighted_avg_sum |-> 0, all_medians |-> <<>>])
    IN  IF acc.total_count > 0
        THEN DictSet(district_data, ALL_PROPERTY_TYPE, CombinedStat(acc))
        ELSE district_data

\* for year in aggregated: for district_id in aggregated[year]
CombineAll(agg, order) ==
    [i \in DOMAIN agg |->
        <<agg[i][1],
          [j \in DOMAIN agg[i][2] |->
              <<agg[i][2][j][1], CombineDistrict(agg[i][2][j][2], order)>>]>>]

(***************************************************************************)
(* The run of process_data.                                                *)
(***************************************************************************)
VARIABLES
    pc,            \* where the run is: "init", "ingesting", "finalizing",
                   \* "writing", "done" (returned) or "failed" (raised)
    file_exists,   \* os.path.exists(INPUT_FILE)
    eof,           \* the reader has yielded its last, short chunk
    rows_read,     \* rows the reader has yielded so far
    aggregated,    \* year -> district_id -> property type -> statistics
    total_rows,
    valid_rows,
    written,       \* the artifacts written, in the order of writing
    exit_code,     \* of the process: 0 on return, 1 on an uncaught exception
    error,         \* the exception that ended the run, or "none"
    history,       \* group key -> the sorted prices of all rows aggregated
    malformed_rows,\* malformed rows among the rows of the chunks read
    postcode,      \* the postcode handed to extract_postcode_district when
                   \* the function is exercised on its own
    district       \* what extract_postcode_district returned for it

vars == <<pc, file_exists, eof, rows_read, aggregated, total_rows, valid_rows,
          written, exit_code, error, history, malformed_rows, postcode, district>>

\* a row the extractor is to reject: bad or negative price, bad date,
\* postcode not of two tokens, property type outside the four
Malformed(row) ==
    \/ ~IsInt(row.price)
    \/ IntOf(row.price) < 0
    \/ ~IsDate(row.date)
    \/ YearOf(row.date) = NaT
    \/ row.postcode = <<>>
    \/ Len(Split(Strip(row.postcode))) # 2
    \/ row.property_type \notin VALID_PROPERTY_TYPES

MalformedIn(chunk) == Cardinality({i \in DOMAIN chunk : Malformed(chunk[i])})

\* the prices the chunk adds to each group
Recorded(hist, chunk) ==
    LET rows == ValidRowsOf(chunk)
        keys == GroupKeysOf(rows)
    IN  [k \in DOMAIN hist \cup keys |->
            SortPrices((IF k \in DOMAIN hist THEN hist[k] ELSE <<>>)
                       \o (IF k \in keys THEN PricesOf(rows, k) ELSE <<>>))]

Init ==
    /\ pc = "init"
    /\ file_exists \in BOOLEAN
    /\ eof = FALSE
    /\ rows_read = 0
    /\ aggregated = <<>>
    /\ total_rows = 0
    /\ valid_rows = 0
    /\ written = <<>>
    /\ exit_code = 0
    /\ error = "none"
    /\ history = <<>>
    /\ malformed_rows = 0
    /\ postcode = <<>>
    /\ district = None

\* lines 99-103: a missing input file prints a message and returns
Start ==
    /\ pc = "init"
    /\ pc' = IF file_exists THEN "ingesting" ELSE "done"
    /\ UNCHANGED <<file_exists, eof, rows_read, aggregated, total_rows,
                   valid_rows, written, exit_code, error, history, malformed_rows,
                   postcode, district>>

Fail(exception) ==
    /\ pc' = "failed"
    /\ error' = exception
    /\ exit_code' = 1

\* lines 127-178 for one chunk: read_csv parses it and the loop body runs
IngestChunk(chunk) ==
    /\ eof' = (Len(chunk) < ChunkSize)
    /\ rows_read' = rows_read + Len(chunk)
    /\ malformed_rows' = malformed_rows + MalformedIn(chunk)
    /\ IF ~PricesParse(chunk)
       THEN /\ Fail("ValueError: read_csv")
            /\ UNCHANGED <<aggregated, total_rows, valid_rows, history>>
       ELSE IF ~DatesParse(chunk)
       THEN /\ Fail("AttributeError: .dt")
            /\ total_rows' = total_rows + Len(chunk)
            /\ UNCHANGED <<aggregated, valid_rows, history>>
       ELSE /\ total_rows' = total_rows + Len(chunk)
            /\ valid_rows' = valid_rows + Len(ValidRowsOf(chunk))
            /\ aggregated' = AggregateChunk(aggregated, chunk)
            /\ history' = Recorded(history, chunk)
            /\ UNCHANGED <<pc, error, exit_code>>
    /\ UNCHANGED <<file_exists, written>>

\* lines 127-178: the reader yields the next chunk and the loop body runs
Ingest ==
    /\ pc = "ingesting"
    /\ ~eof
    /\ rows_read < MaxRows
    /\ \E chunk \in ChunksUpTo(Min(ChunkSize, MaxRows - rows_read)) : IngestChunk(chunk)
    /\ UNCHANGED <<postcode, district>>

\* a variant that goes on to the writing of the files without the "All"
\* entries
EndOfInput_skipCombine ==
    /\ pc = "ingesting"
    /\ IF aggregated = <<>>
       THEN Fail("ValueError: min() arg is an empty sequence")
       ELSE /\ pc' = "writing"
            /\ UNCHANGED <<error, exit_code>>
    /\ UNCHANGED <<file_exists, eof, rows_read, aggregated, total_rows,
                   valid_rows, written, history, malformed_rows, postcode, district>>

\* lines 180-182: the reader is exhausted; min() of no years raises.  (For
\* an empty file pandas may hand the loop one chunk of no rows first, whose
\* date column is not datetime: the run then fails at line 134 instead.)
EndOfInput ==
    /\ pc = "ingesting"
    /\ IF aggregated = <<>>
       THEN Fail("ValueError: min() arg is an empty sequence")
       ELSE /\ pc' = "finalizing"
            /\ UNCHANGED <<error, exit_code>>
    /\ UNCHANGED <<file_exists, eof, rows_read, aggregated, total_rows,
                   valid_rows, written, history, malformed_rows, postcode, district>>

\* lines 186-212: the "All" entries, in the run's iteration order of the set
Combine ==
    /\ pc = "finalizing"
    /\ \E order \in TypeOrders : aggregated' = CombineAll(aggregated, order)
    /\ pc' = "writing"
    /\ UNCHANGED <<file_exists, eof, rows_read, total_rows, valid_rows,
                   written, exit_code, error, history, malformed_rows,
                   postcode, district>>

WrittenYears == {written[i].year : i \in DOMAIN written}

\* json.dump of {'year': year, 'data': aggregated[year]}: the keys in
\* insertion order
Artifact(year) == [year |-> year, data |-> DictGet(aggregated, year)]

\* lines 220-229: one iteration of the loop over sorted(aggregated.keys())
Write ==
    /\ pc = "writing"
    /\ DictKeys(aggregated) \ WrittenYears # {}
    /\ LET year == CHOOSE y \in DictKeys(aggregated) \ WrittenYears :
                       \A o \in DictKeys(aggregated) \ WrittenYears : y <= o
       IN  written' = Append(written, Artifact(year))
    /\ UNCHANGED <<pc, file_exists, eof, rows_read, aggregated, total_rows,
                   valid_rows, exit_code, error, history, malformed_rows,
                   postcode, district>>

\* lines 231-237: every year is written; the summary is printed
Complete ==
    /\ pc = "writing"
    /\ DictKeys(aggregated) \ WrittenYears = {}
    /\ pc' = "done"
    /\ UNCHANGED <<file_exists, eof, rows_read, aggregated, total_rows,
                   valid_rows, written, exit_code, error, history, malformed_rows,
                   postcode, district>>

Next == Start \/ Ingest \/ EndOfInput \/ Combine \/ Write \/ Complete

Spec == Init /\ [][Next]_vars

(***************************************************************************)
(* extract_postcode_district on its own: the input file holds one row,     *)
(* whose postcode is any string of the characters below, and the run reads *)
(* it as its first chunk.                                                  *)
(***************************************************************************)
\* longest postcode tried
MaxPostcodeLen == 5

PostcodeChars == {" ", "1", "A", "m"}

\* "" stands for the empty CSV field (NaN); see extract_postcode_district
Postcodes == UNION {[1..n -> PostcodeChars] : n \in 0..MaxPostcodeLen}

InitExtract ==
    /\ pc = "init"
    /\ file_exists = TRUE
    /\ eof = FALSE
    /\ rows_read = 0
    /\ aggregated = <<>>
    /\ total_rows = 0
    /\ valid_rows = 0
    /\ written = <<>>
    /\ exit_code = 0
    /\ error = "none"
    /\ history = <<>>
    /\ malformed_rows = 0
    /\ postcode \in Postcodes
    /\ district = None

\* the row of the file
PostcodeRow ==
    [price |-> "1", date |-> "2020-03-01", postcode |-> postcode,
     property_type |-> "D"]

\* the first chunk, with the value line 137 computes for its row
ExtractRow ==
    /\ pc = "ingesting"
    /\ rows_read = 0
    /\ IngestChunk(<<PostcodeRow>>)
    /\ district' = extract_postcode_district(postcode)
    /\ UNCHANGED postcode

NextExtract == Start \/ ExtractRow

SpecExtract == InitExtract /\ [][NextExtract]_vars

(***************************************************************************)
(* Notions the properties are stated with.                                 *)
(***************************************************************************)
\* the stored statistics of the group key = <<district_id, year, type>>
Stored(key) == DictGet(DictGet(DictGet(aggregated, key[2]), key[1]), key[3])

\* what one single chunk holding all the prices of a group stores for it
SingleChunkStat(prices) ==
    [avg |-> MeanOf(prices), median |-> MedianOf(prices), count |-> Len(prices)]

\* groups all of whose prices are valid (non-negative)
ValidGroups == {k \in DOMAIN history : \A i \in DOMAIN history[k] : history[k][i] >= 0}

\* the <<district_id, year>> pairs all of whose groups are valid
ValidDistrictYears ==
    {<<k[1], k[2]>> : k \in
        {g \in DOMAIN history :
            \A o \in DOMAIN history :
                (o[1] = g[1] /\ o[2] = g[2]) => o \in ValidGroups}}

\* all prices of a district and year, over the property types
RECURSIVE UnionPrices(_, _, _)
UnionPrices(district_id, year, types) ==
    IF types = {} THEN <<>>
    ELSE LET t == CHOOSE x \in types : TRUE
             key == <<district_id, year, t>>
         IN  (IF key \in DOMAIN history THEN history[key] ELSE <<>>)
             \o UnionPrices(district_id, year, types \ {t})

AfterLoop == pc \in {"finalizing", "writing", "done"}

AfterCombine == pc \in {"writing", "done"}

\* the district entries of the artifacts written
WrittenEntries ==
    UNION {{written[i].data[j][2] : j \in DOMAIN written[i].data} : i \in DOMAIN written}

RECURSIVE CountSum(_, _)
CountSum(district_data, types) ==
    IF types = {} THEN 0
    ELSE LET t == CHOOSE x \in types : TRUE
         IN  (IF DictHas(district_data, t) THEN DictGet(district_data, t).count ELSE 0)
             + CountSum(district_data, types \ {t})

\* the entries of a district without the "All" entry
PerTypeEntries(district_data) ==
    SelectSeq(district_data, LAMBDA e : e[1] # ALL_PROPERTY_TYPE)

RowAbort == error \in {"ValueError: read_csv", "AttributeError: .dt"}

(***************************************************************************)
(* The properties.                                                         *)
(***************************************************************************)
\* C1: after the chunk loop, every group's {avg, median, count} equals what
\* processing all its records as one single chunk gives, however the
\* records were split into chunks.
C1_PartitionInvariant ==
    AfterLoop => \A k \in ValidGroups : Stored(k) = SingleChunkStat(history[k])

\* C2: after any sequence of chunks, every group's stored avg is
\* round(S / N) for the exact sum S and number N of its prices.
C2_ExactMean ==
    \A k \in ValidGroups : Stored(k).avg = RoundDiv(SeqSum(history[k]), Len(history[k]))

\* C3: at the end of the chunk loop the stored median of a group depends on
\* the multiset of its prices only: it is the median of that multiset, the
\* value every arrival order has to agree on with the single-chunk order.
C3_MedianOrderInvariant ==
    pc = "finalizing" => \A k \in ValidGroups : Stored(k).median = MedianOf(history[k])

\* the stored median of every property type of the district and year is the
\* median of the type's prices
ExactTypeMedians(dy) ==
    \A k \in DOMAIN history :
        (k[1] = dy[1] /\ k[2] = dy[2]) => Stored(k).median = MedianOf(history[k])

\* C4: the median of the "A" entry of a district and year is the median of
\* the union of the prices of its property types (stated for the districts
\* and years whose per-type medians are themselves exact).
C4_MedianOfUnion ==
    AfterCombine =>
        \A dy \in {x \in ValidDistrictYears : ExactTypeMedians(x)} :
            DictGet(DictGet(DictGet(aggregated, dy[2]), dy[1]), ALL_PROPERTY_TYPE).median
                = MedianOf(UnionPrices(dy[1], dy[2], VALID_PROPERTY_TYPES))

\* C5: in every artifact written, the count of the "A" entry of a district
\* is the sum of the counts of its D, S, T and F entries.
C5_CountAll ==
    \A dd \in WrittenEntries :
        /\ DictHas(dd, ALL_PROPERTY_TYPE)
        /\ DictGet(dd, ALL_PROPERTY_TYPE).count = CountSum(dd, VALID_PROPERTY_TYPES)

C5_Witness ==
    /\ pc = "done"
    /\ \E dd \in WrittenEntries :
        /\ Len(dd) >= 3
        /\ \E i \in DOMAIN dd : dd[i][2].count >= 2

\* C6: a malformed row is skipped and counted as rejected and the run goes
\* on: no malformed row aborts the run, and the rows not counted as valid
\* are the malformed ones.
C6_MalformedRowSkipped ==
    malformed_rows > 0 =>
        /\ ~RowAbort
        /\ total_rows - valid_rows = malformed_rows

\* C7: a run over an input without any valid record (empty, or every row
\* rejected) returns normally, with no group in any artifact.
C7_EmptyInputCompletes ==
    (file_exists /\ pc \in {"done", "failed"} /\ history = <<>> /\ ~RowAbort) =>
        /\ pc = "done"
        /\ exit_code = 0
        /\ \A i \in DOMAIN written : written[i].data = <<>>

PcRank(p) ==
    CASE p = "init" -> 0
      [] p = "ingesting" -> 1
      [] p = "finalizing" -> 2
      [] p = "writing" -> 3
      [] p \in {"done", "failed"} -> 4

\* every district of every year has its "A" entry
AllComputed ==
    \A i \in DOMAIN aggregated : \A j \in DOMAIN aggregated[i][2] :
        DictHas(aggregated[i][2][j][2], ALL_PROPERTY_TYPE)

\* C8: the run moves init -> ingesting -> finalizing -> writing and never
\* back; an artifact is written only after the chunk loop has ended and the
\* "A" entries are computed; no chunk is ingested once an artifact is
\* written; a run that fails writes no artifact.
C8_RunOrder ==
    [][/\ PcRank(pc') >= PcRank(pc)
       /\ pc = "ingesting" => pc' \in {"ingesting", "finalizing", "failed"}
       /\ written' # written => (pc = "writing" /\ AllComputed)
       /\ (rows_read' # rows_read \/ total_rows' # total_rows
           \/ (pc \in {"init", "ingesting"} /\ aggregated' # aggregated))
            => (pc = "ingesting" /\ written = <<>>)
       /\ (pc = "ingesting" /\ pc' = "failed") => written' = <<>>
       /\ pc = "failed" => (pc' = "failed" /\ written' = written)]_vars

C8_Witness == pc = "done" /\ Len(written) >= 2 /\ rows_read >= 3

\* C9: a run whose input file is missing reads and aggregates nothing,
\* writes nothing, and ends as a failure with a non-zero exit code.
C9_MissingInputFails ==
    (~file_exists /\ pc # "init") =>
        /\ rows_read = 0
        /\ aggregated = <<>>
        /\ written = <<>>
        /\ pc = "failed"
        /\ exit_code # 0

\* the order D, S, T, F
CanonicalOrder == <<"D", "S", "T", "F">>

\* C10: every artifact written is the one a run iterating over the property
\* types in the fixed order D, S, T, F writes: the per-type entries in their
\* insertion order, then the "A" entry computed in that order.
C10_Reproducible ==
    \A dd \in WrittenEntries : dd = CombineDistrict(PerTypeEntries(dd), CanonicalOrder)

C10_Witness ==
    /\ pc = "done"
    /\ \E dd \in WrittenEntries :
        /\ DictHas(dd, "D") /\ DictHas(dd, "F")
        /\ DictGet(dd, "D").median # DictGet(dd, "F").median

\* the positions where a whitespace-separated token of s starts
TokenStarts(s) == {i \in DOMAIN s : s[i] # " " /\ (i = 1 \/ s[i - 1] = " ")}

\* the first token of s, for s with a token
FirstToken(s) ==
    LET a == CHOOSE i \in TokenStarts(s) : \A j \in TokenStarts(s) : i <= j
        b == CHOOSE i \in a..Len(s) :
                /\ \A j \in a..i : s[j] # " "
                /\ (i = Len(s) \/ s[i + 1] = " ")
    IN  SubSeq(s, a, b)

\* C11: extract_postcode_district returns the upper-cased first token when
\* the postcode has exactly two whitespace-separated tokens and None for
\* every other postcode (empty, one token, three or more), and the row of a
\* postcode it returns None for is in no group.
C11_ExtractDistrict ==
    rows_read = 1 =>
        /\ district = IF Cardinality(TokenStarts(postcode)) = 2
                      THEN Upper(FirstToken(postcode))
                      ELSE None
        /\ Cardinality(TokenStarts(postcode)) # 2 =>
                (aggregated = <<>> /\ history = <<>>)
        /\ Cardinality(TokenStarts(postcode)) = 2 =>
                DOMAIN history = {<<Upper(FirstToken(postcode)), 2020, "D">>}

C11_Witness ==
    /\ rows_read = 1
    /\ Cardinality(TokenStarts(postcode)) = 2
    /\ Head(postcode) = " "
    /\ district = <<"M", "1">>

\* the sum over the property types present of avg * count
RECURSIVE WeightedSum(_, _)
WeightedSum(district_data, types) ==
    IF types = {} THEN 0
    ELSE LET t == CHOOSE x \in types : TRUE
         IN  (IF DictHas(district_data, t)
              THEN DictGet(district_data, t).avg * DictGet(district_data, t).count
              ELSE 0)
             + WeightedSum(district_data, types \ {t})

\* C12: in every artifact written, the avg of the "A" entry of a district is
\* round(sum_all / count_all), sum_all being the sum of avg * count and
\* count_all the sum of count over its D, S, T and F entries.
C12_AvgAll ==
    \A dd \in WrittenEntries :
        /\ DictHas(dd, ALL_PROPERTY_TYPE)
        /\ DictGet(dd, ALL_PROPERTY_TYPE).avg
            = RoundDiv(WeightedSum(dd, VALID_PROPERTY_TYPES),
                       CountSum(dd, VALID_PROPERTY_TYPES))

C12_Witness ==
    /\ pc = "done"
    /\ \E dd \in WrittenEntries :
        /\ DictHas(dd, "D") /\ DictHas(dd, "F")
        /\ DictGet(dd, "D").avg # DictGet(dd, "F").avg
        /\ DictGet(dd, "D").count # DictGet(dd, "F").count

\* the sum of the stored counts of the groups keys
RECURSIVE StoredCountSum(_)
StoredCountSum(keys) ==
    IF keys = {} THEN 0
    ELSE LET k == CHOOSE x \in keys : TRUE
         IN  Stored(k).count + StoredCountSum(keys \ {k})

\* C13: after every chunk, the stored count of every group is the number of
\* records aggregated for its key, the stored counts add up to valid_rows,
\* and valid_rows is at most total_rows.
C13_CountsExact ==
    /\ \A k \in DOMAIN history : Stored(k).count = Len(history[k])
    /\ StoredCountSum(DOMAIN history) = valid_rows
    /\ valid_rows <= total_rows

\* a district entry is well formed: not empty, its keys among D, S, T, F
\* and A, every count at least 1
WellFormedEntry(district_data) ==
    /\ district_data # <<>>
    /\ DictKeys(district_data) \subseteq VALID_PROPERTY_TYPES \cup {ALL_PROPERTY_TYPE}
    /\ \A i \in DOMAIN district_data : district_data[i][2].count >= 1

\* the entry has its "A" entry and an entry of one of the four types
HasAllAndType(district_data) ==
    /\ DictHas(district_data, ALL_PROPERTY_TYPE)
    /\ DictKeys(district_data) \cap VALID_PROPERTY_TYPES # {}

\* the district entries held in aggregated
AggregatedEntries ==
    UNION {{aggregated[i][2][j][2] : j \in DOMAIN aggregated[i][2]} :
              i \in DOMAIN aggregated}

\* C14: at every moment of the run and in every artifact written, every
\* district entry is non-empty, has its keys among D, S, T, F and A and only
\* counts of at least 1; after the combine step, and in every artifact, it
\* has an "A" entry beside an entry of one of the four types.
C14_NoEmptyGroup ==
    /\ \A dd \in AggregatedEntries :
        /\ WellFormedEntry(dd)
        /\ AfterCombine => HasAllAndType(dd)
    /\ \A dd \in WrittenEntries : WellFormedEntry(dd) /\ HasAllAndType(dd)

C14_Witness ==
    /\ pc = "done"
    /\ total_rows > valid_rows
    /\ \E dd \in WrittenEntries : DictHas(dd, "D") /\ DictHas(dd, "F")

=============================================================================
